---- MODULE Spec2Model ----
(***************************************************************************)
(* Model of the scheduling-assistant backend (backend/app):                *)
(*   services/calendar.py   normalisation and merging of busy intervals    *)
(*   services/gemini.py     candidate enumeration, reply validation,       *)
(*                          two concurrent model calls                     *)
(*   state/busy.py          the process-wide busy snapshot                 *)
(*   routes/*.py            the HTTP handlers                              *)
(*                                                                         *)
(* Time.  A timezone-aware ISO-8601 string is the record                   *)
(*   [valid, aware, wall, off]: wall is the local wall clock in seconds    *)
(*   since 2024-01-01T00:00:00 local, off the UTC offset in minutes.  Two  *)
(*   strings are equal iff the records are equal; the instant they denote  *)
(*   is wall - 60*off.  Zones are fixed-offset zones.                      *)
(*                                                                         *)
(* Specifications.                                                         *)
(*   SpecMerge  merge_overlapping_intervals on bounded interval lists      *)
(*   SpecEnum   _generate_candidate_slots on bounded inputs                *)
(*   SpecNorm   validation of a SlotEvent and slot_event_to_interval       *)
(*   Spec       the busy store, POST /api/recommendations as the route     *)
(*              handles it, and generate_recommendations called with the   *)
(*              keyword arguments its signature requires, with its two     *)
(*              pool threads interleaved                                   *)
(***************************************************************************)
EXTENDS Integers, Sequences, FiniteSets, TLC

VARIABLES
    mIn, mOut, mOut2, mPc,       \* merge_overlapping_intervals applied once and twice
    eIn, eOut, ePc,              \* _generate_candidate_slots applied to an input
    _latest_busy_response,       \* state/busy.py: the process-wide snapshot
    everWritten,                 \* history: the snapshot has been set at least once
    _gemini_client,              \* routes/recommendations.py: TRUE iff an API key was configured
    cfg,                         \* MEETING_DURATION_MINUTES, WINDOW_DAYS, MODEL_NAME
    rPc,                         \* position of the recommendation request in flight
    req,                         \* the request and its environment (caller, clock, prompts)
    busy_response,               \* the snapshot the request read
    candidates,                  \* generate_recommendations: candidates
    worker,                      \* the two pool threads running _invoke
    finished,                    \* history: the order in which the two threads finished
    calls,                       \* history: generate_content calls made for the request
    result,                      \* what the request gave back to its caller
    nIn, nOut, nPc               \* slot_event_to_interval applied to a posted event

mergeVars == <<mIn, mOut, mOut2, mPc>>
enumVars == <<eIn, eOut, ePc>>
normVars == <<nIn, nOut, nPc>>
storeVars == <<_latest_busy_response, everWritten>>
requestVars == <<rPc, req, busy_response, candidates, worker, finished, calls, result>>
mainVars == <<_latest_busy_response, everWritten, _gemini_client, cfg,
              rPc, req, busy_response, candidates, worker, finished, calls, result>>
vars == <<mIn, mOut, mOut2, mPc, eIn, eOut, ePc,
          _latest_busy_response, everWritten, _gemini_client, cfg,
          rPc, req, busy_response, candidates, worker, finished, calls, result,
          nIn, nOut, nPc>>

-----------------------------------------------------------------------------
(* Bounds *)

MergeMaxTick == 3        \* merge inputs start/end on ticks 0..MergeMaxTick
MaxIntervals == 3        \* merge inputs hold at most this many intervals
MaxDays == 4             \* look-ahead windows of 0..MaxDays days
MaxBusy == 2             \* enumerator inputs hold at most this many busy intervals
MaxEvents == 1           \* a busy payload holds at most this many events
MaxIndex == 3            \* posted slot indices range over -1..MaxIndex

-----------------------------------------------------------------------------
(* Time and ISO strings *)

DaySeconds == 86400

Ts(w, o) == [valid |-> TRUE, aware |-> TRUE, wall |-> w, off |-> o]
NaiveTs(w) == [valid |-> TRUE, aware |-> FALSE, wall |-> w, off |-> 0]
BadTs == [valid |-> FALSE, aware |-> FALSE, wall |-> 0, off |-> 0]

\* the instant (seconds, UTC) an aware timestamp denotes
Instant(t) == t.wall - 60 * t.off

\* str < str and str <= str on ISO strings of one fixed width: the date-time
\* text decides, then the offset text (offsets of the model are >= 0)
IsoLess(a, b) == a.wall < b.wall \/ (a.wall = b.wall /\ a.off < b.off)
IsoLeq(a, b) == a = b \/ IsoLess(a, b)

-----------------------------------------------------------------------------
(* services/calendar.py: merge_overlapping_intervals *)

BusyInterval(id, s, e, src) == [event_id |-> id, start |-> s, end |-> e, source |-> src]

\* key=lambda interval: (interval.start, interval.end), compared as tuples of str
KeyLess(a, b) == IsoLess(a.start, b.start) \/ (a.start = b.start /\ IsoLess(a.end, b.end))

\* sorted() is stable: x goes after every element whose key is <= its own
RECURSIVE InsertStable(_, _)
InsertStable(x, s) ==
    IF s = <<>> THEN <<x>>
    ELSE IF KeyLess(x, Head(s)) THEN <<x>> \o s
    ELSE <<Head(s)>> \o InsertStable(x, Tail(s))

RECURSIVE SortedByKey(_)
SortedByKey(s) ==
    IF s = <<>> THEN <<>>
    ELSE InsertStable(s[Len(s)], SortedByKey(SubSeq(s, 1, Len(s) - 1)))

\* (variant: the source comparison left out)
ShouldMergeAnySource(current, last) == IsoLeq(current.start, last.end)

\* the condition of the if at calendar.py:88
ShouldMerge(current, last) ==
    IsoLeq(current.start, last.end) /\ current.source = last.source

\* (variant: last taken from the front of the list, merged[0])
MergeStepFirst(merged, current) ==
    LET last == merged[1] IN
    IF ShouldMerge(current, last)
    THEN IF IsoLess(last.end, current.end)
         THEN [merged EXCEPT ![Len(merged)] =
                  BusyInterval(last.event_id, last.start, current.end, last.source)]
         ELSE merged
    ELSE Append(merged, current)

\* (variant: the end of the entry is overwritten without the test of line 89)
MergeStepNoMax(merged, current) ==
    LET last == merged[Len(merged)] IN
    IF ShouldMerge(current, last)
    THEN [merged EXCEPT ![Len(merged)] =
             BusyInterval(last.event_id, last.start, current.end, last.source)]
    ELSE Append(merged, current)

\* one iteration of the for loop at calendar.py:86-104
MergeStep(merged, current) ==
    LET last == merged[Len(merged)] IN
    IF ShouldMerge(current, last)
    THEN IF IsoLess(last.end, current.end)
         THEN [merged EXCEPT ![Len(merged)] =
                  BusyInterval(last.event_id, last.start, current.end, last.source)]
         ELSE merged
    ELSE Append(merged, current)

RECURSIVE MergeLoop(_, _)
MergeLoop(merged, rest) ==
    IF rest = <<>> THEN merged
    ELSE MergeLoop(MergeStep(merged, Head(rest)), Tail(rest))

merge_overlapping_intervals(intervals) ==
    LET sorted_intervals == SortedByKey(intervals) IN
    IF sorted_intervals = <<>> THEN <<>>
    ELSE MergeLoop(<<Head(sorted_intervals)>>, Tail(sorted_intervals))

-----------------------------------------------------------------------------
(* services/calendar.py: get_timezone.  Zones are fixed-offset zones; a    *)
(* name zoneinfo does not know falls back to UTC.                          *)

ZoneNames == {"UTC", "Etc/GMT-1"}

get_timezone(tz_name) == IF tz_name = "Etc/GMT-1" THEN 60 ELSE 0

\* datetime.astimezone(tz) of an aware datetime: same instant, wall clock of tz
AsTimezone(t, off) == Ts(Instant(t) + 60 * off, off)

-----------------------------------------------------------------------------
(* services/gemini.py: candidate enumeration *)

SLOT_INCREMENT_MINUTES == 30
MAX_CANDIDATE_SLOTS == 168

CandidateSlot(s, e) == [start |-> s, end |-> e]

\* CandidateSlot.key: f"{start.isoformat()}|{end.isoformat()}"
SlotKey(slot) == <<slot.start, slot.end>>

\* parsed.sort(key=lambda item: item[0]): stable, aware datetimes compare by instant
RECURSIVE InsertSpan(_, _)
InsertSpan(x, s) ==
    IF s = <<>> THEN <<x>>
    ELSE IF Instant(x[1]) < Instant(Head(s)[1]) THEN <<x>> \o s
    ELSE <<Head(s)>> \o InsertSpan(x, Tail(s))

RECURSIVE SortSpans(_)
SortSpans(s) ==
    IF s = <<>> THEN <<>>
    ELSE InsertSpan(s[Len(s)], SortSpans(SubSeq(s, 1, Len(s) - 1)))

\* the loop body at gemini.py:45-52: an interval whose start or end does not
\* parse is skipped, the others are converted to the target zone
RECURSIVE ParseEach(_, _)
ParseEach(busy_intervals, off) ==
    IF busy_intervals = <<>> THEN <<>>
    ELSE LET interval == Head(busy_intervals)
             rest == ParseEach(Tail(busy_intervals), off)
         IN IF interval.start.valid /\ interval.end.valid
            THEN << <<AsTimezone(interval.start, off), AsTimezone(interval.end, off)>> >> \o rest
            ELSE rest

_parse_busy_intervals(busy_intervals, tz_name) ==
    SortSpans(ParseEach(busy_intervals, get_timezone(tz_name)))

\* (variant: a reading on a boundary is moved to the next boundary too)
RoundUpPastBoundary(wall, us, minutes) ==
    LET increment_seconds == minutes * 60
        seconds_since_midnight == wall % DaySeconds
        remainder == seconds_since_midnight % increment_seconds
    IN wall + (increment_seconds - remainder)

\* dt is the wall clock in whole seconds plus a microsecond part; the result
\* is a wall clock in whole seconds
_round_up_to_increment(wall, us, minutes) ==
    LET increment_seconds == minutes * 60
        seconds_since_midnight == wall % DaySeconds
        remainder == seconds_since_midnight % increment_seconds
        adjustment == IF remainder = 0 /\ us = 0 THEN 0 ELSE increment_seconds - remainder
    IN wall + adjustment

\* (variant: only a candidate that starts inside the busy span conflicts)
OverlapsStartOnly(start, end, busy_start, busy_end) ==
    Instant(busy_start) <= Instant(start) /\ Instant(start) < Instant(busy_end)

_overlaps(start, end, busy_start, busy_end) ==
    ~ (Instant(end) <= Instant(busy_start) \/ Instant(start) >= Instant(busy_end))

DateOf(t) == t.wall \div DaySeconds

HasConflict(start, end, busy_spans) ==
    \E i \in 1 .. Len(busy_spans) :
        _overlaps(start, end, busy_spans[i][1], busy_spans[i][2])

\* (variant: the cap compared with > instead of >=)
EnumStepCapOffByOne(st, off, duration, window_end, busy_spans) ==
    IF st.done THEN st
    ELSE IF ~ (st.current + duration <= window_end) THEN [st EXCEPT !.done = TRUE]
    ELSE LET start == Ts(st.current, off)
             candidate_end == Ts(st.current + duration, off)
             next == st.current + SLOT_INCREMENT_MINUTES * 60
         IN IF DateOf(candidate_end) # DateOf(start)
            THEN [st EXCEPT !.current = next]
            ELSE IF ~ HasConflict(start, candidate_end, busy_spans)
            THEN LET appended == Append(st.candidates, CandidateSlot(start, candidate_end))
                 IN IF Len(appended) > MAX_CANDIDATE_SLOTS
                    THEN [st EXCEPT !.candidates = appended, !.done = TRUE]
                    ELSE [st EXCEPT !.candidates = appended, !.current = next]
            ELSE [st EXCEPT !.current = next]

\* one evaluation of the while condition at gemini.py:91 and, when it holds,
\* of the loop body at gemini.py:92-106; st.current is a wall clock in seconds
EnumStep(st, off, duration, window_end, busy_spans) ==
    IF st.done THEN st
    ELSE IF ~ (st.current + duration <= window_end) THEN [st EXCEPT !.done = TRUE]
    ELSE LET start == Ts(st.current, off)
             candidate_end == Ts(st.current + duration, off)
             next == st.current + SLOT_INCREMENT_MINUTES * 60
         IN IF DateOf(candidate_end) # DateOf(start)
            THEN [st EXCEPT !.current = next]
            ELSE IF ~ HasConflict(start, candidate_end, busy_spans)
            THEN LET appended == Append(st.candidates, CandidateSlot(start, candidate_end))
                 IN IF Len(appended) >= MAX_CANDIDATE_SLOTS
                    THEN [st EXCEPT !.candidates = appended, !.done = TRUE]
                    ELSE [st EXCEPT !.candidates = appended, !.current = next]
            ELSE [st EXCEPT !.current = next]

\* n evaluations of EnumStep in a row (split in halves to keep the
\* evaluation shallow)
RECURSIVE EnumSteps(_, _, _, _, _, _)
EnumSteps(st, n, off, duration, window_end, busy_spans) ==
    IF n <= 0 \/ st.done THEN st
    ELSE IF n = 1 THEN EnumStep(st, off, duration, window_end, busy_spans)
    ELSE LET half == n \div 2
         IN EnumSteps(EnumSteps(st, half, off, duration, window_end, busy_spans),
                      n - half, off, duration, window_end, busy_spans)

\* the while loop at gemini.py:91-106 run until it exits: the condition fails
\* after at most (window_end - duration - current) / increment + 1 passes
EnumLoop(current, off, duration, window_end, busy_spans) ==
    LET span == window_end - duration - current
        passes == IF span < 0 THEN 1
                  ELSE span \div (SLOT_INCREMENT_MINUTES * 60) + 2
    IN EnumSteps([current |-> current, candidates |-> <<>>, done |-> FALSE],
                 passes, off, duration, window_end, busy_spans).candidates

\* now is the clock reading datetime.now(tz): [sec |-> instant, us |-> microseconds]
_generate_candidate_slots(busy_intervals, tz_name, duration_minutes, days_ahead, now) ==
    LET off == get_timezone(tz_name)
        now_wall == now.sec + 60 * off
        window_end == now_wall + days_ahead * DaySeconds
        busy_spans == _parse_busy_intervals(busy_intervals, tz_name)
        current == _round_up_to_increment(now_wall, now.us, SLOT_INCREMENT_MINUTES)
    IN EnumLoop(current, off, duration_minutes * 60, window_end, busy_spans)

-----------------------------------------------------------------------------
(* services/calendar.py: normalisation of a busy payload *)

SlotEvent(id, d, s, e, sph) ==
    [id |-> id, slot_date |-> d, start_time_index |-> s, end_time_index |-> e,
     slots_per_hour |-> sph]

\* the Field constraints and validate_time_indices, availability.py:15-25
SlotEventAccepted(event) ==
    /\ event.start_time_index >= 0
    /\ event.end_time_index > 0
    /\ event.slots_per_hour > 0
    /\ ~ (event.end_time_index <= event.start_time_index)

\* event_date is a day number; the result is the ISO string written at
\* calendar.py:54-55
slot_index_to_datetime(event_date, slot_index, slots_per_hour, off) ==
    LET minutes_per_slot == 60 \div slots_per_hour
    IN Ts(event_date * DaySeconds + slot_index * minutes_per_slot * 60, off)

slot_event_to_interval(event, timezone) ==
    LET off == get_timezone(timezone)
    IN BusyInterval(event.id,
           slot_index_to_datetime(event.slot_date, event.start_time_index,
                                  event.slots_per_hour, off),
           slot_index_to_datetime(event.slot_date, event.end_time_index,
                                  event.slots_per_hour, off),
           "user")

\* a timezone of None or "" counts as "UTC" (payload.timezone or "UTC")
OrUTC(tz) == IF tz = "" THEN "UTC" ELSE tz

BusyResponse(tz, intervals) == [present |-> TRUE, timezone |-> tz, intervals |-> intervals]
None == [present |-> FALSE, timezone |-> "", intervals |-> <<>>]

normalize_busy_payload(payload) ==
    LET intervals == [i \in 1 .. Len(payload.events) |->
                         slot_event_to_interval(payload.events[i], OrUTC(payload.timezone))]
    IN BusyResponse(OrUTC(payload.timezone), merge_overlapping_intervals(intervals))

-----------------------------------------------------------------------------
(* services/gemini.py: the model call and the validation of its reply *)

Workers == {"a", "b"}
option_id(w) == IF w = "a" THEN "option_a" ELSE "option_b"
option_label(w) == IF w = "a" THEN "Option A" ELSE "Option B"

NoOption == [id |-> "", label |-> "", start |-> BadTs, end |-> BadTs]
RecommendationOption(id, label, s, e) == [id |-> id, label |-> label, start |-> s, end |-> e]

\* What generate_content gives back.  kind:
\*   transport_error  the SDK call raises
\*   empty_text       response.text is empty
\*   invalid_json     response.text is not JSON
\*   not_object       JSON, but not an object
\*   no_message       message missing or blank
\*   no_option        neither "option" nor a non-empty "options" list
\*   missing_fields   the option lacks "start" or "end"
\*   non_string       "start" is not a string
\*   object           message and "option" with start and end strings
\*   object_in_list   message and "options" list, first entry as above
\* start and end are the strings of the option: the text of a timestamp
\* written with the date/time separator sep ("T" as isoformat() writes it,
\* or " ")
IsoText(t, sep) == [sep |-> sep, ts |-> t]
Reply(kind, s, e, sep) == [kind |-> kind, start |-> IsoText(s, sep), end |-> IsoText(e, sep)]
NoReply == Reply("none", BadTs, BadTs, "T")

InvocationFailureKinds == {"transport_error", "empty_text", "invalid_json"}
ContractFailureKinds == {"not_object", "no_message", "no_option", "missing_fields", "non_string"}
ObjectKinds == {"object", "object_in_list"}

\* the failures the model is taken to produce
RepliedFailureKinds == InvocationFailureKinds \cup {"no_message", "non_string"}

\* the same instant written with the other UTC offset
OtherOffset(t) == IF t.off = 0 THEN AsTimezone(t, 60) ELSE AsTimezone(t, 0)

\* the replies the model is taken to give for a candidate list of length >= 2
ModelReplies(cands) ==
    { Reply(k, BadTs, BadTs, "T") : k \in RepliedFailureKinds }
    \cup { Reply("object", cands[i].start, cands[i].end, "T") : i \in {1, Len(cands)} }
    \cup { Reply("object_in_list", cands[2].start, cands[2].end, " "),
           Reply("object", cands[1].start, cands[2].end, "T"),
           Reply("object", OtherOffset(cands[1].start), OtherOffset(cands[1].end), "T"),
           Reply("object", NaiveTs(cands[1].start.wall), NaiveTs(cands[1].end.wall), "T"),
           Reply("object", BadTs, cands[1].end, "T") }

\* datetime.fromisoformat: any separator is accepted, the datetime keeps the
\* wall clock and the offset of the text
fromisoformat(text) == text.ts

\* (variant: an option matches when it denotes the instants of a candidate)
KeyMatchesByInstant(start_dt, end_dt, cands) ==
    \E i \in 1 .. Len(cands) :
        /\ Instant(cands[i].start) = Instant(start_dt)
        /\ Instant(cands[i].end) = Instant(end_dt)

\* key in candidate_keys, gemini.py:188-189
KeyMatches(start_dt, end_dt, cands) ==
    \E i \in 1 .. Len(cands) : SlotKey(cands[i]) = <<start_dt, end_dt>>

\* the outcome of _call_gemini: the exception raised, or "none" and the payload
_call_gemini(reply) ==
    IF reply.kind = "transport_error" THEN "APIError"
    ELSE IF reply.kind \in {"empty_text", "invalid_json"} THEN "ValueError"
    ELSE "none"

\* the outcome of _extract_option_from_payload on the payload of reply
_extract_option_from_payload(reply, cands, w) ==
    IF reply.kind \in {"not_object", "no_message", "no_option", "missing_fields"}
    THEN [exc |-> "ValueError", option |-> NoOption]
    ELSE IF reply.kind = "non_string"
    THEN [exc |-> "TypeError", option |-> NoOption]
    ELSE IF ~ (reply.start.ts.valid /\ reply.end.ts.valid)
    THEN [exc |-> "ValueError", option |-> NoOption]
    ELSE LET start_dt == fromisoformat(reply.start)
             end_dt == fromisoformat(reply.end)
         IN IF ~ (start_dt.aware /\ end_dt.aware)
            THEN [exc |-> "ValueError", option |-> NoOption]
            ELSE IF ~ KeyMatches(start_dt, end_dt, cands)
            THEN [exc |-> "ValueError", option |-> NoOption]
            ELSE [exc |-> "none",
                  option |-> RecommendationOption(option_id(w), option_label(w),
                                                  start_dt, end_dt)]

-----------------------------------------------------------------------------
(* routes/recommendations.py *)

DEFAULT_DURATION_MINUTES == 60
DEFAULT_WINDOW_DAYS == 7
DEFAULT_MODEL_NAME == "gemini-2.5-pro"

\* the status the except clauses at recommendations.py:103-114 give an
\* exception raised by generate_recommendations
HttpStatusFor(exc) == IF exc = "ValueError" THEN 400 ELSE 502

NoResult ==
    [outcome |-> "pending", exc |-> "none", status |-> 0,
     scenario |-> "", options |-> <<>>, model |-> ""]
Raised(exc, status) ==
    [outcome |-> "raised", exc |-> exc, status |-> status,
     scenario |-> "", options |-> <<>>, model |-> ""]
RecommendationResponse(scenario, options, model, status) ==
    [outcome |-> "returned", exc |-> "none", status |-> status,
     scenario |-> scenario, options |-> options, model |-> model]

\* (variant: the client is looked up before the snapshot is tested)
RouteOutcomeClientFirst(snapshot, client) ==
    IF ~ client THEN Raised("HTTPException", 500)
    ELSE IF ~ snapshot.present THEN Raised("HTTPException", 409)
    ELSE Raised("HTTPException", HttpStatusFor("TypeError"))

\* create_recommendations, recommendations.py:84-116.  The call at lines
\* 95-102 passes neither prompt_option_a nor prompt_option_b, which
\* generate_recommendations (gemini.py:270-280) requires as keyword-only
\* arguments without defaults: the call raises TypeError before the body of
\* generate_recommendations runs, and line 109 turns it into 502.
RouteOutcome(snapshot, client) ==
    IF ~ snapshot.present THEN Raised("HTTPException", 409)
    ELSE IF ~ client THEN Raised("HTTPException", 500)
    ELSE Raised("HTTPException", HttpStatusFor("TypeError"))

-----------------------------------------------------------------------------
(* Each specification leaves the variables of the others at rest *)

EnumIdle ==
    /\ eIn = [now |-> [sec |-> 0, us |-> 0], tz |-> "UTC", duration |-> 0, days |-> 0,
               busy |-> <<>>]
    /\ eOut = <<>>
    /\ ePc = "idle"

MergeIdle ==
    /\ mIn = <<>>
    /\ mOut = <<>>
    /\ mOut2 = <<>>
    /\ mPc = "idle"

NormIdle ==
    /\ nIn = [event |-> SlotEvent("", 0, 0, 1, 1), timezone |-> ""]
    /\ nOut = BusyInterval("", BadTs, BadTs, "user")
    /\ nPc = "idle"

-----------------------------------------------------------------------------
(* Specification Spec: the busy store, the route and the service *)

\* scenario, timezone and the clock reading of the requests made
RequestShapes ==
    { [scenario |-> "plan lunch", timezone |-> "", now |-> [sec |-> 0, us |-> 0]],
      [scenario |-> "  plan lunch  ", timezone |-> "Etc/GMT-1",
       now |-> [sec |-> 84599, us |-> 1]] }

MainConfigs ==
    { [duration |-> DEFAULT_DURATION_MINUTES, days |-> DEFAULT_WINDOW_DAYS,
       model |-> DEFAULT_MODEL_NAME],
      [duration |-> DEFAULT_DURATION_MINUTES, days |-> 0, model |-> DEFAULT_MODEL_NAME] }

\* events a client posts: two hours of day 0, and one that blocks 8 days
PostedEvents == { SlotEvent("e1", 0, 2, 4, 1), SlotEvent("e3", 0, 0, 192, 1) }

BusyPayloads ==
    [timezone : {""},
     events : UNION { [1 .. n -> PostedEvents] : n \in 0 .. MaxEvents }]

Request(shape, caller, prompt_a, prompt_b) ==
    [scenario |-> shape.scenario, timezone |-> shape.timezone, now |-> shape.now,
     caller |-> caller, prompt_a |-> prompt_a, prompt_b |-> prompt_b]

Requests ==
    { Request(x, "route", TRUE, TRUE) : x \in RequestShapes }
    \cup { Request(x, "service", a, b) : x \in RequestShapes, a \in BOOLEAN, b \in BOOLEAN }

NoRequest ==
    [scenario |-> "", timezone |-> "", now |-> [sec |-> 0, us |-> 0],
     caller |-> "", prompt_a |-> TRUE, prompt_b |-> TRUE]

IdleWorker == [pc |-> "idle", reply |-> NoReply, exc |-> "none", option |-> NoOption]

RequestIdle ==
    /\ rPc = "idle"
    /\ req = NoRequest
    /\ busy_response = None
    /\ candidates = <<>>
    /\ worker = [w \in Workers |-> IdleWorker]
    /\ finished = <<>>
    /\ calls = 0
    /\ result = NoResult

MainIdle ==
    /\ _latest_busy_response = None
    /\ everWritten = FALSE
    /\ _gemini_client = FALSE
    /\ cfg = [duration |-> DEFAULT_DURATION_MINUTES, days |-> DEFAULT_WINDOW_DAYS,
              model |-> DEFAULT_MODEL_NAME]
    /\ RequestIdle

Init ==
    /\ _latest_busy_response = None
    /\ everWritten = FALSE
    /\ _gemini_client \in BOOLEAN
    /\ cfg \in MainConfigs
    /\ RequestIdle
    /\ MergeIdle
    /\ EnumIdle
    /\ NormIdle

\* POST /api/availability/busy, routes/calendar.py:13-22
post_busy_availability ==
    \E payload \in BusyPayloads :
        /\ _latest_busy_response' = normalize_busy_payload(payload)
        /\ everWritten' = TRUE
        /\ UNCHANGED <<_gemini_client, cfg, requestVars, mergeVars, enumVars, normVars>>

\* DELETE /api/availability/busy, routes/calendar.py:39-44
delete_busy_availability ==
    /\ _latest_busy_response' = None
    /\ UNCHANGED <<everWritten, _gemini_client, cfg, requestVars, mergeVars, enumVars, normVars>>

\* POST /api/recommendations, routes/recommendations.py:84-116
create_recommendations ==
    /\ rPc = "idle"
    /\ \E payload \in Requests :
        /\ payload.caller = "route"
        /\ req' = payload
    /\ busy_response' = _latest_busy_response
    /\ result' = RouteOutcome(_latest_busy_response, _gemini_client)
    /\ candidates' = <<>>
    /\ worker' = [w \in Workers |-> IdleWorker]
    /\ finished' = <<>>
    /\ calls' = 0
    /\ rPc' = "done"
    /\ UNCHANGED <<storeVars, _gemini_client, cfg, mergeVars, enumVars, normVars>>

\* request.timezone or busy_response.timezone or "UTC", gemini.py:281
TzName(request, snapshot) ==
    IF request.timezone # "" THEN request.timezone ELSE OrUTC(snapshot.timezone)

\* a caller that has a client reads the store, state/busy.py:13-14 as called
\* at recommendations.py:85, finds a snapshot and goes on to call the
\* service with every keyword argument of its signature
get_busy_response ==
    /\ rPc = "idle"
    /\ _latest_busy_response.present
    /\ _gemini_client
    /\ \E request \in Requests :
        /\ request.caller = "service"
        /\ req' = request
    /\ busy_response' = _latest_busy_response
    /\ rPc' = "read"
    /\ candidates' = <<>>
    /\ worker' = [w \in Workers |-> IdleWorker]
    /\ finished' = <<>>
    /\ calls' = 0
    /\ result' = NoResult
    /\ UNCHANGED <<storeVars, _gemini_client, cfg, mergeVars, enumVars, normVars>>

\* (variant: the service looks the store up again instead of using its argument)
BusyResponseFromStore == _latest_busy_response

\* the busy_response argument of generate_recommendations: the object the
\* caller read, passed at recommendations.py:98
BusyResponseArgument == busy_response

\* generate_recommendations up to the submission of the two _invoke tasks:
\* gemini.py:281-324
generate_recommendations ==
    /\ rPc = "read"
    /\ LET cands == _generate_candidate_slots(BusyResponseArgument.intervals,
                        TzName(req, BusyResponseArgument),
                        cfg.duration, cfg.days, req.now)
       IN /\ candidates' = cands
          /\ IF Len(cands) < 2 \/ ~ req.prompt_a \/ ~ req.prompt_b
             THEN /\ result' = Raised("ValueError", 0)
                  /\ rPc' = "done"
                  /\ worker' = [w \in Workers |-> IdleWorker]
             ELSE /\ result' = NoResult
                  /\ rPc' = "submitted"
                  /\ worker' = [w \in Workers |-> [IdleWorker EXCEPT !.pc = "queued"]]
    /\ finished' = <<>>
    /\ calls' = 0
    /\ UNCHANGED <<storeVars, _gemini_client, cfg, req, busy_response,
                   mergeVars, enumVars, normVars>>

\* a pool thread runs _call_gemini, gemini.py:305-314 and 252-267
WorkerCall(w) ==
    /\ worker[w].pc = "queued"
    /\ \E reply \in ModelReplies(candidates) :
        LET exc == _call_gemini(reply)
        IN /\ worker' = [worker EXCEPT ![w] =
                 [pc |-> IF exc = "none" THEN "replied" ELSE "raised",
                  reply |-> reply, exc |-> exc, option |-> NoOption]]
           /\ finished' = IF exc = "none" THEN finished ELSE Append(finished, w)
    /\ calls' = calls + 1
    /\ UNCHANGED <<storeVars, _gemini_client, cfg, rPc, req, busy_response, candidates,
                   result, mergeVars, enumVars, normVars>>

\* the thread validates the payload, gemini.py:315-320
WorkerExtract(w) ==
    /\ worker[w].pc = "replied"
    /\ LET out == _extract_option_from_payload(worker[w].reply, candidates, w)
       IN worker' = [worker EXCEPT ![w] =
              [pc |-> IF out.exc = "none" THEN "ok" ELSE "raised",
               reply |-> worker[w].reply, exc |-> out.exc, option |-> out.option]]
    /\ finished' = Append(finished, w)
    /\ UNCHANGED <<storeVars, _gemini_client, cfg, rPc, req, busy_response, candidates,
                   calls, result, mergeVars, enumVars, normVars>>

WorkerDone(w) == worker[w].pc \in {"ok", "raised"}

\* (variant: the options are listed in the order the calls finished)
AssembleByCompletion(option_a, option_b, order) ==
    IF order[1] = "a" THEN <<option_a, option_b>> ELSE <<option_b, option_a>>

\* options=[option_a, option_b], gemini.py:336
Assemble(option_a, option_b, order) == <<option_a, option_b>>

\* future_a.result(), gemini.py:326
JoinA ==
    /\ rPc = "submitted"
    /\ WorkerDone("a")
    /\ rPc' = IF worker["a"].pc = "ok" THEN "joined_a" ELSE "raising_a"
    /\ UNCHANGED <<storeVars, _gemini_client, cfg, req, busy_response, candidates, worker,
                   finished, calls, result, mergeVars, enumVars, normVars>>

\* future_a.result() raised: the with block waits for the pool to finish
\* (shutdown(wait=True)) and the exception of call A leaves the function
ExitAfterA ==
    /\ rPc = "raising_a"
    /\ WorkerDone("b")
    /\ result' = Raised(worker["a"].exc, 0)
    /\ rPc' = "done"
    /\ UNCHANGED <<storeVars, _gemini_client, cfg, req, busy_response, candidates, worker,
                   finished, calls, mergeVars, enumVars, normVars>>

\* future_b.result() and, if it returns, the response: gemini.py:327-338
JoinB ==
    /\ rPc = "joined_a"
    /\ WorkerDone("b")
    /\ result' = IF worker["b"].pc = "ok"
                 THEN RecommendationResponse(req.scenario,
                          Assemble(worker["a"].option, worker["b"].option, finished),
                          cfg.model, 0)
                 ELSE Raised(worker["b"].exc, 0)
    /\ rPc' = "done"
    /\ UNCHANGED <<storeVars, _gemini_client, cfg, req, busy_response, candidates, worker,
                   finished, calls, mergeVars, enumVars, normVars>>

\* the caller has the result; the next request can be made
Respond ==
    /\ rPc = "done"
    /\ rPc' = "idle"
    /\ req' = NoRequest
    /\ busy_response' = None
    /\ candidates' = <<>>
    /\ worker' = [w \in Workers |-> IdleWorker]
    /\ finished' = <<>>
    /\ calls' = 0
    /\ result' = NoResult
    /\ UNCHANGED <<storeVars, _gemini_client, cfg, mergeVars, enumVars, normVars>>

Next ==
    \/ post_busy_availability
    \/ delete_busy_availability
    \/ create_recommendations
    \/ get_busy_response
    \/ generate_recommendations
    \/ \E w \in Workers : WorkerCall(w)
    \/ \E w \in Workers : WorkerExtract(w)
    \/ JoinA
    \/ ExitAfterA
    \/ JoinB
    \/ Respond

Spec == Init /\ [][Next]_vars

-----------------------------------------------------------------------------
(* Specification SpecEnum: _generate_candidate_slots on bounded inputs *)

\* clock readings: on a boundary, just after one, just before one, late evening
EnumNows ==
    { [sec |-> 0, us |-> 0], [sec |-> 0, us |-> 1], [sec |-> 1799, us |-> 0],
      [sec |-> 1800, us |-> 1], [sec |-> 84600, us |-> 0] }
EnumDurations == {45, 60, 1440}

\* busy spans in minutes of wall clock, given with the offset of their text
EnumBusyShapes ==
    { [s |-> 60, e |-> 120, off |-> 0],
      [s |-> 120, e |-> 180, off |-> 60],
      [s |-> 1380, e |-> 1500, off |-> 0],
      [s |-> 0, e |-> 2880, off |-> 60] }

EnumBusyIntervals ==
    { BusyInterval("e", Ts(x.s * 60, x.off), Ts(x.e * 60, x.off), "user") : x \in EnumBusyShapes }
    \cup { BusyInterval("bad", BadTs, Ts(7200, 0), "user") }

EnumBusyLists == UNION { [1 .. n -> EnumBusyIntervals] : n \in 0 .. MaxBusy }

InitEnum ==
    /\ eIn \in [now : EnumNows, tz : ZoneNames,
                 duration : EnumDurations, days : 0 .. MaxDays, busy : EnumBusyLists]
    /\ eOut = <<>>
    /\ ePc = "input"
    /\ MergeIdle
    /\ MainIdle
    /\ NormIdle

Enumerate ==
    /\ ePc = "input"
    /\ eOut' = _generate_candidate_slots(eIn.busy, eIn.tz, eIn.duration, eIn.days, eIn.now)
    /\ ePc' = "enumerated"
    /\ UNCHANGED <<eIn, mergeVars, mainVars, normVars>>

NextEnum == Enumerate

SpecEnum == InitEnum /\ [][NextEnum]_vars

-----------------------------------------------------------------------------
(* Specification SpecNorm: a posted SlotEvent is validated and, if         *)
(* accepted, converted by slot_event_to_interval                           *)

\* granularities: divisors of 60, a non-divisor, 60 itself, more than 60,
\* and the rejected 0
NormSlotsPerHour == {0, 1, 2, 4, 7, 60, 61, 120}

NormEvents ==
    { SlotEvent("e", d, s, e, sph) :
        d \in {0, 1}, s \in -1 .. MaxIndex, e \in 0 .. MaxIndex + 1,
        sph \in NormSlotsPerHour }

InitNorm ==
    /\ nIn \in [event : NormEvents, timezone : {"", "Etc/GMT-1"}]
    /\ nOut = BusyInterval("", BadTs, BadTs, "user")
    /\ nPc = "posted"
    /\ MergeIdle
    /\ EnumIdle
    /\ MainIdle

\* the request body fails validation (422) and nothing is normalised
RejectEvent ==
    /\ nPc = "posted"
    /\ ~ SlotEventAccepted(nIn.event)
    /\ nPc' = "rejected"
    /\ UNCHANGED <<nIn, nOut, mergeVars, enumVars, mainVars>>

NormalizeEvent ==
    /\ nPc = "posted"
    /\ SlotEventAccepted(nIn.event)
    /\ nOut' = slot_event_to_interval(nIn.event, OrUTC(nIn.timezone))
    /\ nPc' = "normalized"
    /\ UNCHANGED <<nIn, mergeVars, enumVars, mainVars>>

NextNorm == RejectEvent \/ NormalizeEvent

SpecNorm == InitNorm /\ [][NextNorm]_vars

-----------------------------------------------------------------------------
(* C11: every BusyInterval the normaliser produces from a SlotEvent that   *)
(* validation accepted (start index >= 0, end index > start index,         *)
(* slots_per_hour any positive integer) has start < end.                   *)
C11_NormalizedStartBeforeEnd ==
    nPc = "normalized" => Instant(nOut.start) < Instant(nOut.end)

-----------------------------------------------------------------------------
(* Specification SpecMerge: merge_overlapping_intervals on bounded inputs *)

MergeTicks == 0 .. MergeMaxTick
TickSeconds == SLOT_INCREMENT_MINUTES * 60

\* the interval at position i of an input list has event id i
MergeShapes ==
    { [s |-> a, e |-> b, source |-> src] :
        a \in MergeTicks, b \in MergeTicks, src \in {"user", "backend"} }

MergeInputs ==
    UNION { [1 .. n -> { x \in MergeShapes : x.s <= x.e }] : n \in 0 .. MaxIntervals }

ToIntervals(shapes) ==
    [i \in 1 .. Len(shapes) |->
        BusyInterval(i, Ts(shapes[i].s * TickSeconds, 0),
                        Ts(shapes[i].e * TickSeconds, 0), shapes[i].source)]

InitMerge ==
    /\ mIn \in { ToIntervals(x) : x \in MergeInputs }
    /\ mOut = <<>>
    /\ mOut2 = <<>>
    /\ mPc = "input"
    /\ EnumIdle
    /\ MainIdle
    /\ NormIdle

MergeOnce ==
    /\ mPc = "input"
    /\ mOut' = merge_overlapping_intervals(mIn)
    /\ mPc' = "merged"
    /\ UNCHANGED <<mIn, mOut2, enumVars, mainVars, normVars>>

MergeAgain ==
    /\ mPc = "merged"
    /\ mOut2' = merge_overlapping_intervals(mOut)
    /\ mPc' = "remerged"
    /\ UNCHANGED <<mIn, mOut, enumVars, mainVars, normVars>>

NextMerge == MergeOnce \/ MergeAgain

SpecMerge == InitMerge /\ [][NextMerge]_vars

-----------------------------------------------------------------------------
(* C4: merging is idempotent: merging the output of a merge gives that     *)
(* output again, element for element and in the same order.                *)
C4_MergeIdempotent == mPc = "remerged" => mOut2 = mOut

\* a merge that really merged (fewer intervals out than in), over a mix of
\* sources, has been merged again
C4_Witness ==
    /\ mPc = "remerged"
    /\ Len(mOut) < Len(mIn)
    /\ Len(mOut) >= 2
    /\ \E i, j \in 1 .. Len(mIn) : mIn[i].source # mIn[j].source

-----------------------------------------------------------------------------
(* C12: the merge is one left-to-right pass over the input sorted by       *)
(* (start, end).  An interval joins the most recent output entry iff its   *)
(* start <= that entry's end and both have the same source; the entry      *)
(* keeps its start and event_id and its end becomes the larger of the two  *)
(* ends.  Otherwise the interval is appended unmodified.  So two           *)
(* overlapping intervals of different source both appear unmodified, and   *)
(* two overlapping same-source intervals with an interval of the other     *)
(* source between them in sort order are not merged.                       *)

\* S is the input X in (start, end) order, equal keys in input order (the
\* event id of an input interval is its position in X)
IsStableSortOf(S, X) ==
    /\ Len(S) = Len(X)
    /\ \A i \in 1 .. Len(S) : S[i].event_id \in 1 .. Len(X) /\ S[i] = X[S[i].event_id]
    /\ \A i, j \in 1 .. Len(S) :
          i < j => /\ ~ KeyLess(S[j], S[i])
                   /\ S[i].event_id # S[j].event_id
                   /\ (~ KeyLess(S[i], S[j]) => S[i].event_id < S[j].event_id)

\* b marks the positions of S that open an output entry; the entry open at
\* position j started at RunFirst(b, j)
RunFirst(b, j) == CHOOSE i \in 1 .. j : b[i] /\ \A k \in i + 1 .. j : ~ b[k]
RunLast(b, i, n) == CHOOSE j \in i .. n : (\A k \in i + 1 .. j : ~ b[k]) /\ (j = n \/ b[j + 1])

\* the largest of the end strings of S[i..j]
RunMaxEnd(S, i, j) ==
    CHOOSE e \in { S[k].end : k \in i .. j } : \A k \in i .. j : IsoLeq(S[k].end, e)

\* position j opens a new entry iff it does not join the entry open at j - 1
JoinsRule(S, b) ==
    /\ b[1]
    /\ \A j \in 2 .. Len(S) :
          LET first == RunFirst(b, j - 1)
          IN b[j] <=> ~ (/\ IsoLeq(S[j].start, RunMaxEnd(S, first, j - 1))
                         /\ S[j].source = S[first].source)

\* the output has one entry per opened position, in order, with the start,
\* event id and source of the opening interval and the largest end joined
EntriesOf(S, b, out) ==
    LET opens == { i \in 1 .. Len(S) : b[i] }
    IN /\ Len(out) = Cardinality(opens)
       /\ \A i \in opens :
             LET k == Cardinality({ x \in opens : x <= i })
             IN /\ out[k].start = S[i].start
                /\ out[k].event_id = S[i].event_id
                /\ out[k].source = S[i].source
                /\ out[k].end = RunMaxEnd(S, i, RunLast(b, i, Len(S)))

C12_SinglePassMergeRule ==
    mPc = "merged" =>
        LET S == SortedByKey(mIn)
        IN /\ IsStableSortOf(S, mIn)
           /\ mIn = <<>> => mOut = <<>>
           /\ mIn # <<>> =>
                 \E b \in [1 .. Len(S) -> BOOLEAN] : JoinsRule(S, b) /\ EntriesOf(S, b, mOut)
           /\ (Len(S) = 2 /\ S[1].source # S[2].source) => mOut = S
           /\ (Len(S) = 3 /\ S[1].source = S[3].source /\ S[2].source # S[1].source) =>
                 mOut = S

\* three intervals in sort order user, backend, user: the two user intervals
\* overlap each other and the backend one, and all three came out unmodified
C12_Witness ==
    /\ mPc = "merged"
    /\ Len(mIn) = 3
    /\ LET S == SortedByKey(mIn)
       IN /\ S[1].source = "user" /\ S[2].source = "backend" /\ S[3].source = "user"
          /\ IsoLess(S[3].start, S[1].end)
          /\ IsoLess(S[2].start, S[1].end)
          /\ IsoLess(S[1].start, S[1].end)
          /\ IsoLess(S[3].start, S[3].end)
          /\ mOut = S

-----------------------------------------------------------------------------
(* C5: for a non-empty input the output of the merge is sorted by start,   *)
(* has no more intervals than the input, and every output interval's       *)
(* [start, end) lies inside the union of the input intervals of the same   *)
(* source.                                                                 *)

\* the cell [k, k+1) of the tick grid, in seconds
CellInside(k, iv) ==
    /\ Instant(iv.start) <= k * TickSeconds
    /\ (k + 1) * TickSeconds <= Instant(iv.end)

CoveredBySameSource(out, inputs) ==
    \A k \in MergeTicks :
        CellInside(k, out) =>
            \E i \in 1 .. Len(inputs) :
                inputs[i].source = out.source /\ CellInside(k, inputs[i])

-----------------------------------------------------------------------------
(* C1: in every successful recommendation response each option's           *)
(* (start, end) pair is, as a start|end ISO key, the pair of a candidate   *)
(* the enumerator computed for that request; a reply whose option names a  *)
(* pair outside the candidate set makes the request fail, and the option   *)
(* returned for a call is the one its reply named, never another           *)
(* candidate.                                                              *)

CandidatesOfRequest ==
    _generate_candidate_slots(busy_response.intervals, TzName(req, busy_response),
                              cfg.duration, cfg.days, req.now)

IsCandidateKey(s, e, cands) == \E j \in 1 .. Len(cands) : SlotKey(cands[j]) = <<s, e>>

NamesNonCandidate(w) ==
    /\ worker[w].reply.kind \in ObjectKinds
    /\ ~ IsCandidateKey(worker[w].reply.start.ts, worker[w].reply.end.ts, candidates)

OptionIndex(w) == IF w = "a" THEN 1 ELSE 2

C1_OptionsAreCandidates ==
    /\ result.outcome = "returned" =>
          /\ candidates = CandidatesOfRequest
          /\ \A i \in 1 .. Len(result.options) :
                IsCandidateKey(result.options[i].start, result.options[i].end, candidates)
          /\ \A w \in Workers :
                /\ result.options[OptionIndex(w)].start = worker[w].reply.start.ts
                /\ result.options[OptionIndex(w)].end = worker[w].reply.end.ts
    /\ (rPc = "done" /\ \E w \in Workers : NamesNonCandidate(w)) =>
          result.outcome = "raised"

\* a response was returned whose two options are different candidates, one
\* of them named by a reply that used the " " separator
C1_Witness ==
    /\ result.outcome = "returned"
    /\ Len(result.options) = 2
    /\ result.options[1].start # result.options[2].start
    /\ \E w \in Workers : worker[w].reply.start.sep = " "

-----------------------------------------------------------------------------
(* C6: a recommendation request made while the busy snapshot store is      *)
(* empty (never written, or cleared since the last write) fails with the   *)
(* no-availability conflict error (409), and no model call is made for it. *)

C6_EmptyStoreConflict ==
    (rPc = "done" /\ req.caller = "route" /\ ~ busy_response.present) =>
        /\ result = Raised("HTTPException", 409)
        /\ calls = 0
        /\ \A w \in Workers : worker[w].pc = "idle"

\* the store was written and then cleared, no API key is configured, and the
\* request failed with 409
C6_Witness ==
    /\ rPc = "done"
    /\ req.caller = "route"
    /\ everWritten
    /\ ~ _latest_busy_response.present
    /\ ~ busy_response.present
    /\ ~ _gemini_client
    /\ result.status = 409

-----------------------------------------------------------------------------
(* C7: a request for which a busy snapshot exists but the enumerator finds *)
(* fewer than two candidates fails with the insufficient-candidates error, *)
(* which reaches the caller as a client-correctable error (400, not a      *)
(* server or upstream failure), and no model call is made for it.          *)

\* the status the caller of the request gets: the route's status, or, for
\* generate_recommendations itself, the one the route gives its exception
SurfacedStatus ==
    IF req.caller = "route" THEN result.status ELSE HttpStatusFor(result.exc)

C7_InsufficientCandidatesIsClientError ==
    (rPc = "done" /\ busy_response.present /\ _gemini_client
        /\ Len(CandidatesOfRequest) < 2) =>
        /\ result.outcome = "raised"
        /\ SurfacedStatus = 400
        /\ calls = 0

-----------------------------------------------------------------------------
(* C8: a failure of the model invocation itself (transport error, empty    *)
(* text, text that is not JSON) is reported with an error class and code   *)
(* different from those of a contract-validation failure of a well-formed  *)
(* reply.                                                                  *)

InvocationFailed(w) ==
    worker[w].pc = "raised" /\ worker[w].reply.kind \in InvocationFailureKinds

ContractFailed(w) ==
    worker[w].pc = "raised" /\ worker[w].reply.kind \notin InvocationFailureKinds

C8_InvocationFailuresDistinct ==
    \A v, w \in Workers :
        (InvocationFailed(v) /\ ContractFailed(w)) =>
            /\ worker[v].exc # worker[w].exc
            /\ HttpStatusFor(worker[v].exc) # HttpStatusFor(worker[w].exc)

-----------------------------------------------------------------------------
(* C9: with the two model calls running concurrently, in every             *)
(* interleaving and completion order: a response is returned only if both  *)
(* calls succeeded and validated, its options are [option of call A,       *)
(* option of call B] in that order, and if either call fails the request   *)
(* fails and returns no option of the other call.                          *)

C9_BothOrNothingInOrder ==
    /\ result.outcome = "returned" =>
          /\ \A w \in Workers : worker[w].pc = "ok"
          /\ result.options = <<worker["a"].option, worker["b"].option>>
          /\ result.options[1].id = "option_a" /\ result.options[1].label = "Option A"
          /\ result.options[2].id = "option_b" /\ result.options[2].label = "Option B"
    /\ (rPc = "done" /\ \E w \in Workers : worker[w].pc = "raised") =>
          /\ result.outcome = "raised"
          /\ result.options = <<>>
    /\ (rPc # "done" /\ rPc # "idle") => result = NoResult

\* call B finished before call A, both validated, and the response lists
\* two different slots
C9_Witness ==
    /\ result.outcome = "returned"
    /\ finished = <<"b", "a">>
    /\ result.options[1].start # result.options[2].start

-----------------------------------------------------------------------------
(* C10: a request at the orchestrator boundary with a stored snapshot, at  *)
(* least two candidates and no failing model call or validation ends in    *)
(* Success: a response with exactly two options, the model identifier and  *)
(* the request's scenario text unchanged.                                  *)

C10_LinearPathToSuccess ==
    (rPc = "done" /\ busy_response.present /\ _gemini_client
        /\ req.prompt_a /\ req.prompt_b
        /\ Len(CandidatesOfRequest) >= 2
        /\ \A w \in Workers : worker[w].pc # "raised") =>
        /\ result.outcome = "returned"
        /\ Len(result.options) = 2
        /\ result.model = cfg.model
        /\ result.scenario = req.scenario

-----------------------------------------------------------------------------
(* C2: no candidate returned by the enumerator overlaps an input busy      *)
(* span, overlap being half-open: candidate.start < busy.end and           *)
(* candidate.end > busy.start.  A candidate that touches a span at a       *)
(* boundary is allowed.                                                    *)

IsSpan(interval) == interval.start.valid /\ interval.end.valid

HalfOpenOverlap(slot, interval) ==
    /\ Instant(slot.start) < Instant(interval.end)
    /\ Instant(slot.end) > Instant(interval.start)

C2_NoCandidateOverlapsBusy ==
    ePc = "enumerated" =>
        \A i \in 1 .. Len(eOut) : \A j \in 1 .. Len(eIn.busy) :
            IsSpan(eIn.busy[j]) => ~ HalfOpenOverlap(eOut[i], eIn.busy[j])

\* a candidate ending exactly where a busy span starts and one starting
\* exactly where that span ends were both returned, and a position between
\* them was left out
C2_Witness ==
    /\ ePc = "enumerated"
    /\ \E j \in 1 .. Len(eIn.busy) : \E a, b \in 1 .. Len(eOut) :
          /\ IsSpan(eIn.busy[j])
          /\ Instant(eOut[a].end) = Instant(eIn.busy[j].start)
          /\ Instant(eOut[b].start) = Instant(eIn.busy[j].end)
          /\ b = a + 1
          /\ Instant(eOut[b].start) - Instant(eOut[a].start) > SLOT_INCREMENT_MINUTES * 60

-----------------------------------------------------------------------------
(* C3: the sequence returned by the enumerator is strictly increasing by   *)
(* start, has at most 168 slots, and every slot is exactly the configured  *)
(* duration long with start and end on the same calendar date.             *)

C3_IncreasingCappedSameDay ==
    ePc = "enumerated" =>
        /\ \A i \in 1 .. Len(eOut) - 1 : Instant(eOut[i].start) < Instant(eOut[i + 1].start)
        /\ Len(eOut) <= 168
        /\ \A i \in 1 .. Len(eOut) :
              /\ Instant(eOut[i].end) - Instant(eOut[i].start) = eIn.duration * 60
              /\ eOut[i].start.off = eOut[i].end.off
              /\ eOut[i].start.wall \div DaySeconds = eOut[i].end.wall \div DaySeconds

\* the cap was reached in a window that spans several days and held more
\* free positions than the cap
C3_Witness ==
    /\ ePc = "enumerated"
    /\ Len(eOut) = 168
    /\ eIn.duration = 60
    /\ eIn.busy # <<>>
    /\ eOut[168].start.wall + 2 * 3600 <= eIn.now.sec + 60 * get_timezone(eIn.tz) + eIn.days * DaySeconds
    /\ eOut[168].start.wall \div DaySeconds > eOut[1].start.wall \div DaySeconds

-----------------------------------------------------------------------------
(* C14: a recommendation request reads the process-wide busy snapshot      *)
(* exactly once, at its start.  Under any interleaving with busy posts     *)
(* (replace) and busy deletes (clear), the candidates it enumerates and    *)
(* validates the model's options against are the ones derived from the     *)
(* value read at that point; later writes or clears of the store neither   *)
(* change the request's candidates nor make it fail with the               *)
(* no-availability error.                                                  *)

Enumerated == rPc \in {"submitted", "joined_a", "raising_a", "done"} /\ req.caller = "service"

\* what holds of every state of a request
SnapshotHeld ==
    /\ (rPc # "idle" /\ req.caller = "service") => busy_response.present
    /\ Enumerated =>
          LET derived == CandidatesOfRequest
          IN /\ candidates = derived
             /\ \A w \in Workers :
                   /\ worker[w].pc = "ok" =>
                         /\ IsCandidateKey(worker[w].reply.start.ts, worker[w].reply.end.ts,
                                            derived)
                         /\ worker[w].option.start = worker[w].reply.start.ts
                         /\ worker[w].option.end = worker[w].reply.end.ts
                   /\ (worker[w].pc \in {"ok", "raised"}
                         /\ worker[w].reply.kind \in ObjectKinds
                         /\ ~ IsCandidateKey(worker[w].reply.start.ts, worker[w].reply.end.ts,
                                              derived)) => worker[w].pc = "raised"
    /\ (rPc = "done" /\ busy_response.present) => result # Raised("HTTPException", 409)

\* what holds of every step: the store is read when the request starts and
\* not again, and a write of the store leaves the request as it is
SnapshotReadOnce ==
    /\ (rPc = "idle" /\ rPc' # "idle") => busy_response' = _latest_busy_response
    /\ (rPc # "idle" /\ rPc' # "idle") => busy_response' = busy_response /\ req' = req
    /\ (Enumerated /\ rPc' # "idle") => candidates' = candidates
    /\ _latest_busy_response' # _latest_busy_response => UNCHANGED requestVars

C14_SnapshotReadOnceAtStart == [] SnapshotHeld /\ [][SnapshotReadOnce]_vars

\* a request returned two options although the store was cleared after its
\* read, and the candidates it used are not the ones the store would give
C14_Witness ==
    /\ result.outcome = "returned"
    /\ req.caller = "service"
    /\ busy_response.present
    /\ ~ _latest_busy_response.present
    /\ candidates # _generate_candidate_slots(_latest_busy_response.intervals,
                         TzName(req, _latest_busy_response), cfg.duration, cfg.days, req.now)

-----------------------------------------------------------------------------
(* C13: the enumerator returns exactly the first min(168, n) elements, in  *)
(* increasing order, of the n positions c = c0 + k * 30 min (k >= 0, c0 =  *)
(* now rounded up to the next 30-minute boundary from local midnight, now  *)
(* itself if it is on a boundary) with c + duration <= now + windowDays, c *)
(* and c + duration on the same calendar date, and no half-open overlap    *)
(* with a busy span.  A rejected position moves the cursor by exactly one  *)
(* increment, so no feasible position is skipped.                          *)

HalfHour == 30 * 60

\* the local wall clock of the reading, in whole seconds
NowWall == eIn.now.sec + 60 * get_timezone(eIn.tz)

\* the first 30-minute boundary of the local day not before the reading
FirstBoundary ==
    CHOOSE t \in NowWall .. NowWall + HalfHour :
        /\ (t % DaySeconds) % HalfHour = 0
        /\ t > NowWall \/ eIn.now.us = 0
        /\ \A u \in NowWall .. t - 1 :
              ~ ((u % DaySeconds) % HalfHour = 0 /\ (u > NowWall \/ eIn.now.us = 0))

SlotAt(c) ==
    CandidateSlot(Ts(c, get_timezone(eIn.tz)), Ts(c + eIn.duration * 60, get_timezone(eIn.tz)))

FeasiblePosition(c) ==
    /\ c + eIn.duration * 60 <= NowWall + eIn.days * DaySeconds
    /\ c \div DaySeconds = (c + eIn.duration * 60) \div DaySeconds
    /\ \A j \in 1 .. Len(eIn.busy) :
          IsSpan(eIn.busy[j]) => ~ HalfOpenOverlap(SlotAt(c), eIn.busy[j])

FeasiblePositions ==
    LET c0 == FirstBoundary
    IN { c \in { c0 + k * HalfHour : k \in 0 .. (eIn.days * DaySeconds) \div HalfHour + 1 } :
           FeasiblePosition(c) }

C13_ExactlyFirstFeasiblePositions ==
    ePc = "enumerated" =>
        LET P == FeasiblePositions
            n == Cardinality(P)
            emitted == { eOut[i].start.wall : i \in 1 .. Len(eOut) }
        IN /\ Len(eOut) = IF n < 168 THEN n ELSE 168
           /\ \A i \in 1 .. Len(eOut) : eOut[i] = SlotAt(eOut[i].start.wall)
           /\ \A i \in 1 .. Len(eOut) - 1 : eOut[i].start.wall < eOut[i + 1].start.wall
           /\ emitted \subseteq P
           /\ \A p \in P \ emitted : eOut # <<>> /\ p > eOut[Len(eOut)].start.wall

\* the reading was on a boundary and is the first slot returned, a position
\* between two returned slots was rejected, a later day was reached past the
\* rejected end-of-day positions, and the cap cut off feasible positions
C13_Witness ==
    /\ ePc = "enumerated"
    /\ eIn.now.us = 0
    /\ eOut # <<>>
    /\ eOut[1].start.wall = NowWall
    /\ \E i \in 1 .. Len(eOut) - 1 :
          /\ eOut[i + 1].start.wall - eOut[i].start.wall = 2 * HalfHour + eIn.duration * 60
          /\ ~ FeasiblePosition(eOut[i].start.wall + HalfHour)
          /\ \E j \in 1 .. Len(eIn.busy) :
                IsSpan(eIn.busy[j]) /\ HalfOpenOverlap(SlotAt(eOut[i].start.wall + HalfHour), eIn.busy[j])
    /\ \E i \in 1 .. Len(eOut) - 1 :
          eOut[i + 1].start.wall \div DaySeconds > eOut[i].start.wall \div DaySeconds
    /\ Len(eOut) = 168
    /\ Cardinality(FeasiblePositions) > 168

====
